---- MODULE Spec2Model ----
(***************************************************************************)
(* Model of aimlflowrayed: the MLflow -> Aim synchronisation pass          *)
(* (utils.convert_existing_logs), the RunHashCache actor that maps MLflow  *)
(* run ids to Aim run hashes, the CommitDriver / CommitWorker actors that  *)
(* write the fetched runs into the Aim repository, the resolution of the   *)
(* --experiment option (utils.get_mlflow_experiments) and the sync command *)
(* with its continuous mode (cli.sync, utils._wait_forever).               *)
(***************************************************************************)
EXTENDS Integers, Sequences, FiniteSets, TLC

(***************************************************************************)
(* Bounds of the model and the (unchanged) MLflow source.                  *)
(***************************************************************************)
NumRuns == 3

MaxPasses == 2

MaxPool == 3

\* num_connections=4 in convert_existing_logs
num_connections == 4

\* dict.get of a missing key (None): no Aim hash
NoHash == 0

\* client.search_experiments(): the experiments of the source, by name; the
\* second experiment is named like the id of the first
ExperimentNames == <<"A", "1">>

NumExperiments == Len(ExperimentNames)

\* the experiment_id of every experiment of the source
ExperimentIds == <<"1", "2">>

\* experiment=None: no --experiment option
None == "<None>"

\* a lookup that found nothing: get_experiment_by_name returns None
NoExperiment == 0

\* the values of the --experiment option: none, an id, a name, or neither
Selectors == {None, "1", "2", "A", "zz"}

\* the run ids of the source; its runs alternate between the experiments
RunIds == 1..NumRuns

\* client.search_runs(ex.experiment_id): the run ids of experiment e
search_runs(e) == {r \in RunIds : ((r - 1) % NumExperiments) + 1 = e}

\* client.get_metric_history: the steps of the samples of a run's metric,
\* in source order (run 1 has two samples, every other run one)
get_metric_history(r) == IF r = 1 THEN <<0, 1>> ELSE <<0>>

(***************************************************************************)
(* The persisted cache file: json.dump / json.load of a flat object.       *)
(* The file is a sequence of tokens; a file is parseable iff it is an      *)
(* opening brace, key/value pairs, and a closing brace.                    *)
(***************************************************************************)
Tok(t, k, v) == [t |-> t, k |-> k, v |-> v]

LBrace == Tok("{", 0, 0)

RBrace == Tok("}", 0, 0)

RECURSIVE DumpItems(_, _)
DumpItems(m, k) ==
    IF k > NumRuns THEN <<>>
    ELSE (IF m[k] # NoHash THEN <<Tok("kv", k, m[k])>> ELSE <<>>)
         \o DumpItems(m, k + 1)

\* json.dump(self._cache, FS): the complete text of the mapping
json_dump(m) == <<LBrace>> \o DumpItems(m, 1) \o <<RBrace>>

EmptyMap == [r \in RunIds |-> NoHash]

RECURSIVE LoadItems(_, _, _)
LoadItems(data, i, m) ==
    IF i > Len(data) - 1 THEN m
    ELSE LoadItems(data, i + 1, [m EXCEPT ![data[i].k] = data[i].v])

\* whether json.load accepts the text
Parseable(data) ==
    /\ Len(data) >= 2
    /\ data[1] = LBrace
    /\ data[Len(data)] = RBrace
    /\ \A i \in 2..(Len(data) - 1) : data[i].t = "kv"

\* json.load(FS) of a parseable text
json_load(data) == LoadItems(data, 2, EmptyMap)

\* a file on disk: exists, and its content
NoFile == [exists |-> FALSE, data |-> <<>>]

FileOf(data) == [exists |-> TRUE, data |-> data]

\* what a write of `data` that is cut short leaves on disk: open(path, 'w')
\* has truncated the file, and any prefix of the text may have reached it
CutShort(data) == {FileOf(SubSeq(data, 1, n)) : n \in 0..(Len(data) - 1)}

(***************************************************************************)
(* RunHashCache: the actor's state is [cache, needs_refresh].              *)
(***************************************************************************)
\* mutant: the no_cache flag is not honoured
RemoveIfNoCache_never(file, no_cache) == file

\* os.remove of the file in no_cache mode (lines 52-53)
RemoveIfNoCache(file, no_cache) ==
    IF no_cache /\ file.exists THEN NoFile ELSE file

\* the try / except around json.load (lines 54-58)
LoadCache(file) ==
    IF file.exists /\ Parseable(file.data) THEN json_load(file.data)
    ELSE EmptyMap

\* RunHashCache.__init__
RunHashCache(file, no_cache) ==
    [cache |-> LoadCache(RemoveIfNoCache(file, no_cache)),
     needs_refresh |-> FALSE]

\* RunHashCache.get
get(rc, run_id) == rc.cache[run_id]

\* mutant: the flag is raised whether or not the value changes
setitem_always_dirty(rc, key, val) ==
    [cache |-> [rc.cache EXCEPT ![key] = val], needs_refresh |-> TRUE]

\* RunHashCache.__setitem__
setitem(rc, key, val) ==
    IF ~(get(rc, key) = val)
    THEN [cache |-> [rc.cache EXCEPT ![key] = val], needs_refresh |-> TRUE]
    ELSE rc

\* RunHashCache.set
set(rc, run_id, hashval) == setitem(rc, run_id, hashval)

\* RunHashCache.refresh: whether the call opens the file for writing (the
\* with open(..., 'w') of line 76 is not under any condition)
refresh_writes(rc) == TRUE

\* mutant: the file is opened in append mode
refresh_file_append(rc, file) ==
    IF refresh_writes(rc) THEN FileOf(file.data \o json_dump(rc.cache)) ELSE file

\* RunHashCache.refresh: the file after the call
refresh_file(rc, file) ==
    IF refresh_writes(rc) THEN FileOf(json_dump(rc.cache)) ELSE file

\* RunHashCache.refresh: the actor after the call (no field is assigned)
refresh_actor(rc) == rc

\* RunHashCache.refresh, not run to its end: the files it can leave
refresh_cut_short(rc, file) ==
    IF refresh_writes(rc) THEN CutShort(json_dump(rc.cache)) ELSE {file}

(***************************************************************************)
(* CommitDriver.commit: np.array_split(range(N), W).                       *)
(***************************************************************************)
\* mutant: the remainder of the division is not handed out
section_size_floor(n, w, i) == n \div w

\* numpy: Neach_section, extras = divmod(Ntotal, Nsections);
\* section_sizes = extras * [Neach_section + 1] + (Nsections - extras) * [Neach_section]
section_size(n, w, i) == IF i <= n % w THEN (n \div w) + 1 ELSE n \div w

\* numpy: div_points = cumsum([0] + section_sizes)
RECURSIVE div_point(_, _, _)
div_point(n, w, i) ==
    IF i = 0 THEN 0 ELSE div_point(n, w, i - 1) + section_size(n, w, i)

\* works[i]: the indices of the i-th section (1-based)
array_split(n, w) ==
    [i \in 1..w |-> [j \in 1..section_size(n, w, i) |-> div_point(n, w, i - 1) + j]]

\* mutant: every worker is handed the whole batch
split_work_whole_batch(batch, w) == [i \in 1..w |-> batch]

\* work = [dummy_runs[j] for j in works[i]], for every worker i
split_work(batch, w) ==
    [i \in 1..w |->
        [j \in 1..Len(array_split(Len(batch), w)[i]) |->
            batch[array_split(Len(batch), w)[i][j]]]]

(***************************************************************************)
(* get_mlflow_experiments: the experiments a pass goes over.               *)
(***************************************************************************)
\* client.get_experiment(experiment) raises MlflowException: no experiment
\* of the source has this id
get_experiment_raises(experiment) ==
    \A e \in 1..NumExperiments : ExperimentIds[e] # experiment

\* client.get_experiment(experiment), when it does not raise
get_experiment(experiment) ==
    CHOOSE e \in 1..NumExperiments : ExperimentIds[e] = experiment

\* client.get_experiment_by_name(experiment): the experiment, or None
get_experiment_by_name(experiment) ==
    IF \E e \in 1..NumExperiments : ExperimentNames[e] = experiment
    THEN CHOOSE e \in 1..NumExperiments : ExperimentNames[e] = experiment
    ELSE NoExperiment

\* mutant: the lookup by name comes first
lookup_name_first(experiment) ==
    IF get_experiment_by_name(experiment) # NoExperiment
    THEN get_experiment_by_name(experiment)
    ELSE IF get_experiment_raises(experiment) THEN NoExperiment
         ELSE get_experiment(experiment)

\* lines 84-87: the try / except around the lookup by id
lookup(experiment) ==
    IF get_experiment_raises(experiment)
    THEN get_experiment_by_name(experiment)
    ELSE get_experiment(experiment)

\* get_mlflow_experiments: whether it raises RuntimeError (line 89), and the
\* experiments it returns otherwise
get_mlflow_experiments(experiment) ==
    IF experiment = None
    THEN [raises |-> FALSE, experiments |-> [e \in 1..NumExperiments |-> e]]
    ELSE IF lookup(experiment) = NoExperiment
         THEN [raises |-> TRUE, experiments |-> <<>>]
         ELSE [raises |-> FALSE, experiments |-> <<lookup(experiment)>>]

(***************************************************************************)
(* The transfer record (the "dummy run") and the Aim repository.           *)
(***************************************************************************)
\* mutant: the cache is not asked, the Namespace never carries run_hash
get_dummyrun_no_lookup(run_id, rc) ==
    [run_id |-> run_id, run_hash |-> NoHash]

\* get_dummyrun: the Namespace carries run_hash only when the cache has one
get_dummyrun(run_id, rc) ==
    [run_id |-> run_id, run_hash |-> get(rc, run_id)]

\* fetch_run_details: get_dummyrun, then collect_run_params and
\* collect_metrics fill params and metrics from the MLflow run
fetch_run_details(run_id, rc) ==
    [run_id |-> run_id,
     run_hash |-> get_dummyrun(run_id, rc).run_hash,
     metrics |-> get_metric_history(run_id)]

\* Run(repo=...): a new record, its hash fresh in the repository
NewRun(repo) == Len(repo) + 1

\* mutant: a record is created whether or not the dummy carries run_hash
commit_dummy_run_repo_always_new(dummy, repo) ==
    Append(repo, [mlflow_run_id |-> dummy.run_id, series |-> dummy.metrics])

\* mutant: the samples are tracked only on a record that was just created
commit_dummy_run_repo_track_new_only(dummy, repo) ==
    IF dummy.run_hash # NoHash
    THEN repo
    ELSE Append(repo, [mlflow_run_id |-> dummy.run_id,
                       series |-> dummy.metrics])

\* commit_dummy_run: the repository after the call; aim_run.track appends
\* every sample of the dummy's metric at its step
commit_dummy_run_repo(dummy, repo) ==
    IF dummy.run_hash # NoHash
    THEN [repo EXCEPT ![dummy.run_hash] =
             [mlflow_run_id |-> dummy.run_id,
              series |-> @.series \o dummy.metrics]]
    ELSE Append(repo, [mlflow_run_id |-> dummy.run_id,
                       series |-> dummy.metrics])

\* commit_dummy_run: aim_run.hash of the returned run
commit_dummy_run_hash(dummy, repo) ==
    IF dummy.run_hash # NoHash THEN dummy.run_hash ELSE NewRun(repo)

\* a commit that raises after Run(...) created or reopened the record and
\* before any sample was tracked
commit_interrupted_repo(dummy, repo) ==
    IF dummy.run_hash # NoHash THEN repo
    ELSE Append(repo, [mlflow_run_id |-> dummy.run_id, series |-> <<>>])

(***************************************************************************)
(* State.                                                                  *)
(***************************************************************************)
VARIABLES
    cache_file,   \* the file repo_path/mlflow_logs_cache
    run_cache,    \* the RunHashCache actor: [cache, needs_refresh]
    repo,         \* the Aim repository: the records, indexed by hash
    pc,           \* where convert_existing_logs is
    ex,           \* the experiment of the for loop
    task,         \* the fetch_run_details task of every run
    dummy_runs,   \* _dummy_runs: the collected transfer records
    workers,      \* len(CommitDriver.workers)
    work,         \* the partition handed to every CommitWorker
    wst,          \* where every CommitWorker.commit is
    wpos,         \* how many records of its partition a worker has finished
    aimrun,       \* the hash of the run a worker committed and has not yet cached
    repo_inst,    \* whether a worker holds an open repository handle
    committed,    \* how many commit_dummy_run calls of this batch returned, per run id
    passes,       \* how many passes have been started
    prev_ok,      \* whether the pass before this one returned normally
    prev_cache,   \* the mapping the pass before this one ended with
    start_len,    \* the number of records when this pass started
    first_hash,   \* history: the first hash a set() of any pass gave a run id
    call,         \* the last call made on the RunHashCache actor
    experiment,   \* the --experiment option of the command
    experiments,  \* the experiments get_mlflow_experiments returned
    continuous_mode,  \* the --continuous-mode option of the command
    watcher       \* the MLFlowWatcher of the command: the calls made on it

vars == <<cache_file, run_cache, repo, pc, ex, task, dummy_runs, workers, work,
          wst, wpos, aimrun, repo_inst, committed, passes, prev_ok, prev_cache,
          start_len, first_hash, call, experiment, experiments, continuous_mode, watcher>>

sync_vars == <<experiment, experiments, continuous_mode, watcher>>

orch_vars == <<pc, ex, task, dummy_runs>>

worker_vars == <<workers, work, wst, wpos, aimrun, repo_inst, committed>>

pass_vars == <<passes, prev_ok, prev_cache, start_len>>

ghost_vars == <<passes, prev_ok, prev_cache, start_len, first_hash>>

\* the last call on the actor: its operation and arguments, what it
\* returned, whether it opened the file for writing, whether it is a
\* construction that follows a refresh, and, when the last write of the file
\* ran to its end and the file was not removed since (intact), the mapping
\* that write held
NoCall == [op |-> "none", key |-> 0, val |-> 0, ret |-> 0, wrote |-> FALSE,
           no_cache |-> FALSE, after_refresh |-> FALSE, intact |-> FALSE,
           written |-> EmptyMap]

NoTask == [st |-> "none", dummy |-> [run_id |-> 0, run_hash |-> NoHash, metrics |-> <<>>]]

Idle(w) == [i \in 1..w |-> "idle"]

Zeros(w) == [i \in 1..w |-> 0]

Closed(w) == [i \in 1..w |-> FALSE]

NoWork(w) == [i \in 1..w |-> <<>>]

NoCommits == [r \in RunIds |-> 0]

\* no MLFlowWatcher(...) was made, no call on it
NoWatcher == [made |-> FALSE, starts |-> 0, stops |-> 0]

\* the exception that ended the process: a fetch task's (line 201), a
\* commit's (line 202), refresh()'s (line 203), RuntimeError (line 89),
\* ClickException (cli.py line 37), KeyboardInterrupt, or a kill
Aborted == {"fetch_error", "commit_error", "refresh_error", "not_found",
            "usage_error", "interrupted", "crashed"}

\* no process is running: nothing has run yet, or the last one has ended
Ended == pc \in {"idle", "done", "returned"} \cup Aborted

Init ==
    /\ cache_file = NoFile
    /\ run_cache = [cache |-> EmptyMap, needs_refresh |-> FALSE]
    /\ repo = <<>>
    /\ pc = "idle"
    /\ ex = 0
    /\ task = [r \in RunIds |-> NoTask]
    /\ dummy_runs = <<>>
    /\ workers = num_connections
    /\ work = NoWork(num_connections)
    /\ wst = Idle(num_connections)
    /\ wpos = Zeros(num_connections)
    /\ aimrun = Zeros(num_connections)
    /\ repo_inst = Closed(num_connections)
    /\ committed = NoCommits
    /\ passes = 0
    /\ prev_ok = FALSE
    /\ prev_cache = EmptyMap
    /\ start_len = 0
    /\ first_hash = EmptyMap
    /\ call = NoCall
    /\ experiment = None
    /\ experiments = <<>>
    /\ continuous_mode = FALSE
    /\ watcher = NoWatcher

(***************************************************************************)
(* convert_existing_logs: one pass over the experiments.                   *)
(***************************************************************************)
\* the process has ended by an exception or a kill: its actors, tasks and
\* handles are gone; the file and the repository stay
ProcessGone ==
    /\ run_cache' = [cache |-> EmptyMap, needs_refresh |-> FALSE]
    /\ ex' = 0
    /\ task' = [r \in RunIds |-> NoTask]
    /\ dummy_runs' = <<>>
    /\ workers' = num_connections
    /\ work' = NoWork(num_connections)
    /\ wst' = Idle(num_connections)
    /\ wpos' = Zeros(num_connections)
    /\ aimrun' = Zeros(num_connections)
    /\ repo_inst' = Closed(num_connections)
    /\ committed' = NoCommits

\* lines 182-185 of a new process: the experiments are resolved, then the
\* cache actor is built over the file and the driver builds its n workers
convert_existing_logs(sel, n) ==
    /\ experiment' = sel
    /\ experiments' = get_mlflow_experiments(sel).experiments
    /\ IF get_mlflow_experiments(sel).raises
       THEN /\ pc' = "not_found"
            /\ ProcessGone
            /\ UNCHANGED cache_file
       ELSE /\ run_cache' = RunHashCache(cache_file, FALSE)
            /\ cache_file' = RemoveIfNoCache(cache_file, FALSE)
            /\ workers' = n
            /\ work' = NoWork(n)
            /\ wst' = Idle(n)
            /\ wpos' = Zeros(n)
            /\ aimrun' = Zeros(n)
            /\ repo_inst' = Closed(n)
            /\ committed' = NoCommits
            /\ pc' = "loop"
            /\ ex' = 1
            /\ task' = [r \in RunIds |-> NoTask]
            /\ dummy_runs' = <<>>

\* a pass over all the experiments, after any number of earlier ones
StartPass ==
    /\ Ended
    /\ passes < MaxPasses
    /\ passes' = passes + 1
    /\ prev_ok' = (pc = "done")
    /\ prev_cache' = IF pc = "done" THEN run_cache.cache ELSE EmptyMap
    /\ start_len' = Len(repo)
    /\ convert_existing_logs(None, num_connections)
    /\ UNCHANGED <<repo, first_hash, call, continuous_mode, watcher>>

\* line 187: runs = client.search_runs(ex.experiment_id)
runs == search_runs(experiments[ex])

\* lines 187-198: one fetch_run_details task per run of the experiment
SubmitFetches ==
    /\ pc = "loop"
    /\ task' = [r \in RunIds |->
                   IF r \in runs THEN [NoTask EXCEPT !.st = "pending"]
                   ELSE NoTask]
    /\ dummy_runs' = <<>>
    /\ pc' = "wait"
    /\ UNCHANGED <<cache_file, run_cache, repo, ex, call>>
    /\ UNCHANGED worker_vars
    /\ UNCHANGED ghost_vars
    /\ UNCHANGED sync_vars

\* the task of run r runs to its end
FetchRun(r) ==
    /\ pc = "wait"
    /\ task[r].st = "pending"
    /\ task' = [task EXCEPT ![r] = [st |-> "ready",
                                    dummy |-> fetch_run_details(r, run_cache)]]
    /\ UNCHANGED <<cache_file, run_cache, repo, pc, ex, dummy_runs, call>>
    /\ UNCHANGED worker_vars
    /\ UNCHANGED ghost_vars
    /\ UNCHANGED sync_vars

\* the task of run r raises (client.get_run or get_metric_history fails)
FetchFail(r) ==
    /\ pc = "wait"
    /\ task[r].st = "pending"
    /\ task' = [task EXCEPT ![r].st = "error"]
    /\ UNCHANGED <<cache_file, run_cache, repo, pc, ex, dummy_runs, call>>
    /\ UNCHANGED worker_vars
    /\ UNCHANGED ghost_vars
    /\ UNCHANGED sync_vars

\* lines 200-201: ray.wait hands over one finished task, ray.get its result
Collect(r) ==
    /\ pc = "wait"
    /\ task[r].st = "ready"
    /\ task' = [task EXCEPT ![r].st = "collected"]
    /\ dummy_runs' = Append(dummy_runs, task[r].dummy)
    /\ UNCHANGED <<cache_file, run_cache, repo, pc, ex, call>>
    /\ UNCHANGED worker_vars
    /\ UNCHANGED ghost_vars
    /\ UNCHANGED sync_vars

\* line 201: ray.get of a task that raised raises in the orchestrator
CollectError(r) ==
    /\ pc = "wait"
    /\ task[r].st = "error"
    /\ pc' = "fetch_error"
    /\ ProcessGone
    /\ UNCHANGED <<cache_file, repo, call>>
    /\ UNCHANGED ghost_vars
    /\ UNCHANGED sync_vars

\* mutant: the loop of line 199 ends at the first collected run
SomeCollected == \E r \in runs : task[r].st = "collected"

\* mutant: the loop of line 199 waits for the tasks and does not take their
\* results, a task's exception is not raised
AllWaitedFor == \A r \in runs : task[r].st \in {"collected", "error"}

\* the loop of line 199 has collected every run of the experiment
AllCollected == \A r \in runs : task[r].st = "collected"

\* CommitDriver.commit, lines 106-112: the batch is split and every worker
\* is handed its partition
commit(batch) ==
    /\ work' = split_work(batch, workers)
    /\ wst' = [i \in 1..workers |-> "queued"]
    /\ wpos' = Zeros(workers)
    /\ aimrun' = Zeros(workers)
    /\ committed' = NoCommits

\* line 202: the collected batch goes to the driver
CommitDispatch ==
    /\ pc = "wait"
    /\ AllCollected
    /\ commit(dummy_runs)
    /\ pc' = "commit"
    /\ UNCHANGED <<cache_file, run_cache, repo, ex, task, dummy_runs, workers,
                   repo_inst, call>>
    /\ UNCHANGED ghost_vars
    /\ UNCHANGED sync_vars

(***************************************************************************)
(* CommitWorker.commit.                                                    *)
(***************************************************************************)
\* the record the worker is at
CurrentDummy(w) == work[w][wpos[w] + 1]

\* lines 125-130 with nothing to commit: the handle is opened and closed
CommitNothing(w) ==
    /\ pc = "commit"
    /\ wst[w] = "queued"
    /\ Len(work[w]) = 0
    /\ wst' = [wst EXCEPT ![w] = "done"]
    /\ UNCHANGED <<cache_file, run_cache, repo, workers, work, wpos, aimrun,
                   repo_inst, committed, call>>
    /\ UNCHANGED orch_vars
    /\ UNCHANGED ghost_vars
    /\ UNCHANGED sync_vars

\* line 127: commit_dummy_run of the next record of the partition (before
\* the first record, line 125 opens the handle)
CommitRun(w) ==
    /\ pc = "commit"
    /\ wst[w] \in {"queued", "open"}
    /\ wpos[w] < Len(work[w])
    /\ repo' = commit_dummy_run_repo(CurrentDummy(w), repo)
    /\ aimrun' = [aimrun EXCEPT ![w] = commit_dummy_run_hash(CurrentDummy(w), repo)]
    /\ wst' = [wst EXCEPT ![w] = "commited"]
    /\ repo_inst' = [repo_inst EXCEPT ![w] = TRUE]
    /\ committed' = [committed EXCEPT ![CurrentDummy(w).run_id] = @ + 1]
    /\ UNCHANGED <<cache_file, run_cache, workers, work, wpos, call>>
    /\ UNCHANGED orch_vars
    /\ UNCHANGED ghost_vars
    /\ UNCHANGED sync_vars

\* mutant: the set() is sent and not waited for; the worker goes on
cache_set_not_awaited(w) ==
    /\ pc = "commit"
    /\ wst[w] = "commited"
    /\ wpos' = [wpos EXCEPT ![w] = @ + 1]
    /\ wst' = [wst EXCEPT ![w] = IF wpos[w] + 1 = Len(work[w]) THEN "done" ELSE "open"]
    /\ repo_inst' = [repo_inst EXCEPT ![w] = ~(wpos[w] + 1 = Len(work[w]))]
    /\ UNCHANGED <<cache_file, run_cache, repo, workers, work, aimrun,
                   committed, call>>
    /\ UNCHANGED orch_vars
    /\ UNCHANGED pass_vars
    /\ UNCHANGED sync_vars

\* line 128: run_cache.set(drun.run_id, aimrun.hash) (after the last
\* record, line 130 closes the handle)
cache_set(w) ==
    /\ pc = "commit"
    /\ wst[w] = "commited"
    /\ run_cache' = set(run_cache, CurrentDummy(w).run_id, aimrun[w])
    /\ wpos' = [wpos EXCEPT ![w] = @ + 1]
    /\ wst' = [wst EXCEPT ![w] = IF wpos[w] + 1 = Len(work[w]) THEN "done" ELSE "open"]
    /\ repo_inst' = [repo_inst EXCEPT ![w] = ~(wpos[w] + 1 = Len(work[w]))]
    /\ UNCHANGED <<cache_file, repo, workers, work, aimrun, committed, call>>
    /\ UNCHANGED orch_vars
    /\ UNCHANGED pass_vars
    /\ UNCHANGED sync_vars

CacheSet(w) ==
    /\ cache_set(w)
    /\ UNCHANGED first_hash

\* the same step, with the history of the mapping kept: the first hash any
\* set() gave the run id
CacheSetRecorded(w) ==
    /\ cache_set(w)
    /\ first_hash' = [first_hash EXCEPT ![CurrentDummy(w).run_id] =
                         IF @ = NoHash THEN aimrun[w] ELSE @]

\* line 127 raises: before Run(...) made the record, or after it did; the
\* exception leaves commit() before line 130
CommitFail(w) ==
    /\ pc = "commit"
    /\ wst[w] \in {"queued", "open"}
    /\ wpos[w] < Len(work[w])
    /\ repo' \in {repo, commit_interrupted_repo(CurrentDummy(w), repo)}
    /\ wst' = [wst EXCEPT ![w] = "failed"]
    /\ repo_inst' = [repo_inst EXCEPT ![w] = TRUE]
    /\ UNCHANGED <<cache_file, run_cache, workers, work, wpos, aimrun,
                   committed, call>>
    /\ UNCHANGED orch_vars
    /\ UNCHANGED ghost_vars
    /\ UNCHANGED sync_vars

(***************************************************************************)
(* CommitDriver.commit, line 113, and the rest of the loop body.           *)
(***************************************************************************)
\* mutant: ray.wait instead of ray.get, one finished worker is enough
AnyRefReady == \E w \in 1..workers : wst[w] = "done"

\* mutant: ray.wait for all refs instead of ray.get, a worker's exception
\* is not raised
AllRefsFinished == \A w \in 1..workers : wst[w] \in {"done", "failed"}

\* ray.get(all_refs) has every worker's result
AllRefsReady == \A w \in 1..workers : wst[w] = "done"

\* ray.get(all_refs) meets a worker that raised
SomeRefFailed == \E w \in 1..workers : wst[w] = "failed"

\* lines 113 and 202: the driver's commit returns to the orchestrator
CommitReturn ==
    /\ pc = "commit"
    /\ AllRefsReady
    /\ pc' = "refresh"
    /\ UNCHANGED <<cache_file, run_cache, repo, ex, task, dummy_runs, call>>
    /\ UNCHANGED worker_vars
    /\ UNCHANGED ghost_vars
    /\ UNCHANGED sync_vars

\* lines 113 and 202: the driver's commit raises in the orchestrator
CommitRaise ==
    /\ pc = "commit"
    /\ SomeRefFailed
    /\ pc' = "commit_error"
    /\ ProcessGone
    /\ UNCHANGED <<cache_file, repo, call>>
    /\ UNCHANGED ghost_vars
    /\ UNCHANGED sync_vars

\* line 203: run_cache.refresh(), then the next experiment or line 205
Refresh ==
    /\ pc = "refresh"
    /\ cache_file' = refresh_file(run_cache, cache_file)
    /\ run_cache' = refresh_actor(run_cache)
    /\ pc' = IF ex = Len(experiments) THEN "done" ELSE "loop"
    /\ ex' = ex + 1
    /\ UNCHANGED <<repo, task, dummy_runs, call>>
    /\ UNCHANGED worker_vars
    /\ UNCHANGED ghost_vars
    /\ UNCHANGED sync_vars

\* line 203 raises: open fails (the file is as it was) or a write fails
\* after open truncated the file
RefreshFail ==
    /\ pc = "refresh"
    /\ cache_file' \in {cache_file} \cup refresh_cut_short(run_cache, cache_file)
    /\ pc' = "refresh_error"
    /\ ProcessGone
    /\ UNCHANGED <<repo, call>>
    /\ UNCHANGED ghost_vars
    /\ UNCHANGED sync_vars

\* the process is killed; inside refresh() the file is left cut short
Crash ==
    /\ ~Ended
    /\ cache_file' \in IF pc = "refresh"
                       THEN {cache_file} \cup refresh_cut_short(run_cache, cache_file)
                       ELSE {cache_file}
    /\ pc' = "crashed"
    /\ ProcessGone
    /\ UNCHANGED <<repo, call>>
    /\ UNCHANGED ghost_vars
    /\ UNCHANGED sync_vars

OtherSteps ==
    \/ StartPass
    \/ SubmitFetches
    \/ \E r \in RunIds : FetchRun(r)
    \/ \E r \in RunIds : FetchFail(r)
    \/ \E r \in RunIds : Collect(r)
    \/ \E r \in RunIds : CollectError(r)
    \/ CommitDispatch
    \/ \E w \in 1..workers : CommitNothing(w)
    \/ \E w \in 1..workers : CommitRun(w)
    \/ \E w \in 1..workers : CommitFail(w)
    \/ CommitReturn
    \/ CommitRaise
    \/ Refresh
    \/ RefreshFail
    \/ Crash

Next ==
    \/ OtherSteps
    \/ \E w \in 1..workers : CacheSet(w)

Spec == Init /\ [][Next]_vars

\* the passes, with the history of the mapping kept
NextRecorded ==
    \/ OtherSteps
    \/ \E w \in 1..workers : CacheSetRecorded(w)

SpecRecorded == Init /\ [][NextRecorded]_vars

(***************************************************************************)
(* cli.sync: one run of the command, with any options, over a new          *)
(* repository.                                                             *)
(***************************************************************************)
\* cli.py lines 30-41: the tracking URI is checked, then convert_existing_logs
\* is called with the --experiment option
Sync(cm, uri, sel) ==
    /\ pc = "idle"
    /\ continuous_mode' = cm
    /\ IF ~uri
       THEN /\ pc' = "usage_error"
            /\ ProcessGone
            /\ UNCHANGED <<cache_file, experiment, experiments>>
       ELSE convert_existing_logs(sel, num_connections)
    /\ UNCHANGED <<repo, call, watcher>>
    /\ UNCHANGED ghost_vars

\* cli.py lines 43-45: continuous mode was not asked for
SyncReturn ==
    /\ pc = "done"
    /\ continuous_mode = FALSE
    /\ pc' = "returned"
    /\ UNCHANGED <<cache_file, run_cache, repo, ex, task, dummy_runs, call,
                   experiment, experiments, continuous_mode, watcher>>
    /\ UNCHANGED worker_vars
    /\ UNCHANGED ghost_vars

\* cli.py lines 47-48: MLFlowWatcher(repo_inst, ...)
WatcherNew ==
    /\ pc = "done"
    /\ ~(continuous_mode = FALSE)
    /\ watcher' = [watcher EXCEPT !.made = TRUE]
    /\ pc' = "watcher"
    /\ UNCHANGED <<cache_file, run_cache, repo, ex, task, dummy_runs, call,
                   experiment, experiments, continuous_mode>>
    /\ UNCHANGED worker_vars
    /\ UNCHANGED ghost_vars

\* cli.py line 51: watcher.start()
WatcherStart ==
    /\ pc = "watcher"
    /\ watcher' = [watcher EXCEPT !.starts = @ + 1]
    /\ pc' = "started"
    /\ UNCHANGED <<cache_file, run_cache, repo, ex, task, dummy_runs, call,
                   experiment, experiments, continuous_mode>>
    /\ UNCHANGED worker_vars
    /\ UNCHANGED ghost_vars

\* cli.py lines 52-53 and _wait_forever, lines 355-357: the try block is
\* entered and the thread sleeps
WaitForever ==
    /\ pc = "started"
    /\ pc' = "blocked"
    /\ UNCHANGED <<cache_file, run_cache, repo, ex, task, dummy_runs, call>>
    /\ UNCHANGED sync_vars
    /\ UNCHANGED worker_vars
    /\ UNCHANGED ghost_vars

\* mutant: the except clause does not call watcher.stop()
Interrupt_without_stop ==
    /\ pc \in {"done", "watcher", "started", "blocked"}
    /\ pc' = IF pc = "blocked" THEN "returned" ELSE "interrupted"
    /\ UNCHANGED <<cache_file, run_cache, repo, ex, task, dummy_runs, call>>
    /\ UNCHANGED sync_vars
    /\ UNCHANGED worker_vars
    /\ UNCHANGED ghost_vars

\* KeyboardInterrupt in the main thread: inside the try block of
\* _wait_forever (lines 358-359) watcher.stop() is called and the command
\* returns; anywhere else of the command it leaves the command
Interrupt ==
    /\ pc \in {"done", "watcher", "started", "blocked"}
    /\ watcher' = IF pc = "blocked" THEN [watcher EXCEPT !.stops = @ + 1]
                  ELSE watcher
    /\ pc' = IF pc = "blocked" THEN "returned" ELSE "interrupted"
    /\ UNCHANGED <<cache_file, run_cache, repo, ex, task, dummy_runs, call,
                   experiment, experiments, continuous_mode>>
    /\ UNCHANGED worker_vars
    /\ UNCHANGED ghost_vars

\* the steps of a pass (lines 186-205), its failures and a kill
PassSteps ==
    \/ SubmitFetches
    \/ \E r \in RunIds : FetchRun(r)
    \/ \E r \in RunIds : FetchFail(r)
    \/ \E r \in RunIds : Collect(r)
    \/ \E r \in RunIds : CollectError(r)
    \/ CommitDispatch
    \/ \E w \in 1..workers : CommitNothing(w)
    \/ \E w \in 1..workers : CommitRun(w)
    \/ \E w \in 1..workers : CacheSet(w)
    \/ \E w \in 1..workers : CommitFail(w)
    \/ CommitReturn
    \/ CommitRaise
    \/ Refresh
    \/ RefreshFail
    \/ Crash

NextSync ==
    \/ \E cm, uri \in BOOLEAN, sel \in Selectors : Sync(cm, uri, sel)
    \/ PassSteps
    \/ SyncReturn
    \/ WatcherNew
    \/ WatcherStart
    \/ WaitForever
    \/ Interrupt

SpecSync == Init /\ [][NextSync]_vars

(***************************************************************************)
(* One pass over a new repository with a CommitDriver of any pool size.    *)
(***************************************************************************)
\* lines 182-185, with CommitDriver.remote(..., num_connections=n)
ConvertPool(n) ==
    /\ pc = "idle"
    /\ convert_existing_logs(None, n)
    /\ UNCHANGED <<repo, call, continuous_mode, watcher>>
    /\ UNCHANGED ghost_vars

NextPool ==
    \/ \E n \in 1..MaxPool : ConvertPool(n)
    \/ PassSteps

SpecPool == Init /\ [][NextPool]_vars

(***************************************************************************)
(* Passes in which no fetch, no commit and no refresh fails, and no        *)
(* process is killed.                                                      *)
(***************************************************************************)
NextNoFailure ==
    \/ StartPass
    \/ SubmitFetches
    \/ \E r \in RunIds : FetchRun(r)
    \/ \E r \in RunIds : Collect(r)
    \/ CommitDispatch
    \/ \E w \in 1..workers : CommitNothing(w)
    \/ \E w \in 1..workers : CommitRun(w)
    \/ \E w \in 1..workers : CacheSet(w)
    \/ CommitReturn
    \/ Refresh

SpecNoFailure == Init /\ [][NextNoFailure]_vars

(***************************************************************************)
(* The RunHashCache actor under any sequence of calls: construction over   *)
(* the file (a new process), set, get, refresh, and a kill inside refresh. *)
(***************************************************************************)
MaxKey == 2

MaxHash == 2

Keys == 1..MaxKey

HashVals == 1..MaxHash

Called(op, key, val, ret, wrote, no_cache) ==
    [call EXCEPT !.op = op, !.key = key, !.val = val, !.ret = ret,
                 !.wrote = wrote, !.no_cache = no_cache,
                 !.after_refresh = (op = "init" /\ call.op = "refresh")]

rest_vars == <<repo, ex, task, dummy_runs, workers, work, wst, wpos, aimrun,
               repo_inst, committed, passes, prev_ok, prev_cache, start_len, first_hash>>

\* RunHashCache.remote(repo_path, no_cache)
ActorNew(no_cache) ==
    /\ run_cache' = RunHashCache(cache_file, no_cache)
    /\ cache_file' = RemoveIfNoCache(cache_file, no_cache)
    /\ pc' = "actor"
    /\ call' = [Called("init", 0, 0, 0, FALSE, no_cache) EXCEPT
                   !.intact = call.intact /\ ~no_cache,
                   !.written = IF no_cache THEN EmptyMap ELSE call.written]
    /\ UNCHANGED rest_vars
    /\ UNCHANGED sync_vars

\* run_cache.set.remote(k, v)
ActorSet(k, v) ==
    /\ pc = "actor"
    /\ run_cache' = set(run_cache, k, v)
    /\ call' = Called("set", k, v, 0, FALSE, FALSE)
    /\ UNCHANGED cache_file
    /\ UNCHANGED rest_vars
    /\ UNCHANGED sync_vars
    /\ UNCHANGED pc

\* run_cache.get.remote(k)
ActorGet(k) ==
    /\ pc = "actor"
    /\ call' = Called("get", k, 0, get(run_cache, k), FALSE, FALSE)
    /\ UNCHANGED <<cache_file, run_cache, pc>>
    /\ UNCHANGED rest_vars
    /\ UNCHANGED sync_vars

\* run_cache.refresh.remote()
ActorRefresh ==
    /\ pc = "actor"
    /\ cache_file' = refresh_file(run_cache, cache_file)
    /\ run_cache' = refresh_actor(run_cache)
    /\ call' = [Called("refresh", 0, 0, 0, refresh_writes(run_cache), FALSE) EXCEPT
                   !.intact = IF refresh_writes(run_cache) THEN TRUE ELSE call.intact,
                   !.written = IF refresh_writes(run_cache) THEN run_cache.cache
                               ELSE call.written]
    /\ UNCHANGED pc
    /\ UNCHANGED rest_vars
    /\ UNCHANGED sync_vars

\* the process is killed inside refresh()
ActorRefreshKilled ==
    /\ pc = "actor"
    /\ cache_file' \in refresh_cut_short(run_cache, cache_file)
    /\ run_cache' = [cache |-> EmptyMap, needs_refresh |-> FALSE]
    /\ pc' = "crashed"
    /\ call' = [Called("killed", 0, 0, 0, refresh_writes(run_cache), FALSE) EXCEPT
                   !.intact = IF refresh_writes(run_cache) THEN FALSE ELSE call.intact,
                   !.written = IF refresh_writes(run_cache) THEN EmptyMap
                               ELSE call.written]
    /\ UNCHANGED rest_vars
    /\ UNCHANGED sync_vars

NextCache ==
    \/ \E no_cache \in BOOLEAN : ActorNew(no_cache)
    \/ \E k \in Keys, v \in HashVals : ActorSet(k, v)
    \/ \E k \in Keys : ActorGet(k)
    \/ ActorRefresh
    \/ ActorRefreshKilled

SpecCache == Init /\ [][NextCache]_vars

(***************************************************************************)
(* CommitDriver.commit on any batch, with any number of workers.           *)
(***************************************************************************)
RECURSIVE Batches(_)
\* the sequences of n distinct run ids
Batches(n) ==
    IF n = 0 THEN {<<>>}
    ELSE {Append(b, r) : b \in Batches(n - 1), r \in RunIds} \cap
         {b \in [1..n -> RunIds] : \A i, j \in 1..n : b[i] = b[j] => i = j}

AllBatches == UNION {Batches(n) : n \in 0..NumRuns}

\* the repository after an earlier pass has synced the runs 1..k, the
\* record of run r under the hash k + 1 - r
SyncedRepo(k) ==
    [h \in 1..k |-> [mlflow_run_id |-> k + 1 - h,
                     series |-> get_metric_history(k + 1 - h)]]

\* and the mapping that pass has written
SyncedCache(k) == [r \in RunIds |-> IF r <= k THEN k + 1 - r ELSE NoHash]

InitCommit ==
    /\ \E k \in 0..NumRuns :
          /\ repo = SyncedRepo(k)
          /\ cache_file = IF k = 0 THEN NoFile
                          ELSE FileOf(json_dump(SyncedCache(k)))
          /\ run_cache = RunHashCache(cache_file, FALSE)
    /\ pc = "call"
    /\ ex = 0
    /\ task = [r \in RunIds |-> NoTask]
    /\ \E b \in AllBatches :
          dummy_runs = [i \in 1..Len(b) |-> fetch_run_details(b[i], run_cache)]
    /\ workers \in 1..MaxPool
    /\ work = NoWork(workers)
    /\ wst = Idle(workers)
    /\ wpos = Zeros(workers)
    /\ aimrun = Zeros(workers)
    /\ repo_inst = Closed(workers)
    /\ committed = NoCommits
    /\ passes = 0
    /\ prev_ok = FALSE
    /\ prev_cache = EmptyMap
    /\ start_len = 0
    /\ first_hash = EmptyMap
    /\ call = NoCall
    /\ experiment = None
    /\ experiments = <<>>
    /\ continuous_mode = FALSE
    /\ watcher = NoWatcher

\* db_driver.commit.remote(_dummy_runs)
DriverCommit ==
    /\ pc = "call"
    /\ commit(dummy_runs)
    /\ pc' = "commit"
    /\ UNCHANGED <<cache_file, run_cache, repo, ex, task, dummy_runs, workers,
                   repo_inst, call>>
    /\ UNCHANGED ghost_vars
    /\ UNCHANGED sync_vars

NextCommit ==
    \/ DriverCommit
    \/ \E w \in 1..workers : CommitNothing(w)
    \/ \E w \in 1..workers : CommitRun(w)
    \/ \E w \in 1..workers : CacheSet(w)
    \/ \E w \in 1..workers : CommitFail(w)
    \/ CommitReturn
    \/ CommitRaise

SpecCommit == InitCommit /\ [][NextCommit]_vars

(***************************************************************************)
(* Properties.                                                             *)
(***************************************************************************)

\* C1: a full pass that follows a pass which returned normally creates no
\* record in the repository, and when it has returned normally every run id
\* the cache held after the first pass maps to the same hash, in memory and
\* in the file.
C1_SecondPassIdempotent ==
    (prev_ok /\ passes >= 2) =>
        /\ Len(repo) = start_len
        /\ pc = "done" =>
              \A r \in RunIds :
                  prev_cache[r] # NoHash =>
                      /\ get(run_cache, r) = prev_cache[r]
                      /\ LoadCache(cache_file)[r] = prev_cache[r]

C1_Witness ==
    /\ pc = "done"
    /\ prev_ok
    /\ passes >= 2
    /\ Len(repo) = NumRuns
    /\ \A r \in RunIds : prev_cache[r] # NoHash

\* C2: after any sequence of passes, aborted and killed ones included, the
\* repository holds at most one record made for a given source run id.
C2_AtMostOneRecordPerRun ==
    \A h1, h2 \in 1..Len(repo) :
        repo[h1].mlflow_run_id = repo[h2].mlflow_run_id => h1 = h2

\* C3: once a set() has mapped a run id to a hash, the cache never maps that
\* run id to another hash, in this pass or in a later one over the same
\* repository.
C3_WriteOnce ==
    \A r \in RunIds :
        get(run_cache, r) # NoHash => get(run_cache, r) = first_hash[r]

\* Within one process no step maps a mapped run id to another hash: every
\* set() the workers issue on a mapped run id carries the hash it maps to.
WriteOnceInProcess ==
    [][\A r \in RunIds :
          (get(run_cache, r) # NoHash /\ run_cache'.cache[r] # NoHash) =>
              run_cache'.cache[r] = get(run_cache, r)]_vars

\* C4: after set(a, x) and refresh(), a cache built anew over the same file
\* (no_cache off) returns x for a, and every other entry as it was.
C4_RoundTrip ==
    [][(call.op = "refresh" /\ call'.op = "init" /\ ~call'.no_cache) =>
          \A a \in RunIds : run_cache'.cache[a] = get(run_cache, a)]_vars

C4_Witness ==
    /\ call.op = "init"
    /\ call.after_refresh
    /\ ~call.no_cache
    /\ get(run_cache, 1) = 2
    /\ get(run_cache, 2) = 1

\* C5: set(k, v) on a key that is absent or maps to another value makes
\* get(k) = v and raises the dirty flag, leaving every other key alone; on a
\* key that maps to v it changes neither the mapping nor the flag; get
\* returns the mapping's value and changes nothing.
C5_SetGetEffect ==
    [][/\ call'.op = "set" =>
            IF get(run_cache, call'.key) # call'.val
            THEN /\ run_cache'.cache[call'.key] = call'.val
                 /\ run_cache'.needs_refresh
                 /\ \A r \in RunIds \ {call'.key} :
                        run_cache'.cache[r] = get(run_cache, r)
            ELSE run_cache' = run_cache
       /\ call'.op = "get" =>
            /\ run_cache' = run_cache
            /\ call'.ret = run_cache.cache[call'.key]]_vars

C5_Witness ==
    /\ call.op = "set"
    /\ ~run_cache.needs_refresh
    /\ get(run_cache, call.key) = call.val

\* C6: refresh() writes the file only when the dirty flag is set, and the
\* flag is clear after it.
C6_RefreshOnlyWhenDirty ==
    [][call'.op = "refresh" =>
          /\ call'.wrote => run_cache.needs_refresh
          /\ ~run_cache'.needs_refresh]_vars

\* C7: a kill inside refresh() leaves the file holding a complete mapping
\* (or absent), never an empty, truncated or partly written text.
C7_FileNeverCutShort ==
    cache_file.exists => Parseable(cache_file.data)

\* C8: a cache built over the file holds the mapping of the last write that
\* ran to its end when no_cache is off, and the empty mapping when there is
\* no such write (the file is missing or cut short) or no_cache is on; with
\* no_cache on the file is removed, otherwise it is left as it is; the dirty
\* flag starts clear.
C8_InitialCache ==
    [][call'.op = "init" =>
          /\ run_cache'.cache = IF call.intact /\ ~call'.no_cache
                                THEN call.written ELSE EmptyMap
          /\ ~run_cache'.needs_refresh
          /\ call'.no_cache => ~cache_file'.exists
          /\ ~call'.no_cache => cache_file' = cache_file]_vars

C8_Witness ==
    /\ call.op = "init"
    /\ ~call.no_cache
    /\ cache_file.exists
    /\ Len(cache_file.data) >= 2
    /\ ~call.intact
    /\ run_cache.cache = EmptyMap

RECURSIVE Concat(_, _)
Concat(parts, i) ==
    IF i > Len(parts) THEN <<>> ELSE parts[i] \o Concat(parts, i + 1)

\* C9: the driver hands out exactly one partition per worker; the
\* partitions, in worker order, make up the batch again, and their sizes
\* differ by at most one.
C9_PartitionCoverage ==
    pc \in {"commit", "refresh"} =>
        /\ Len(work) = workers
        /\ Concat(work, 1) = dummy_runs
        /\ \A i, j \in 1..workers : Len(work[i]) - Len(work[j]) <= 1

C9_Witness ==
    /\ pc = "commit"
    /\ workers = 2
    /\ Len(dummy_runs) = 3
    /\ Len(work[1]) = 2
    /\ Len(work[2]) = 1

\* C10: when the driver's commit has returned, every worker has finished
\* every record of its partition: each record of the batch is in the
\* repository and in the cache.
C10_CommitBarrier ==
    pc = "refresh" =>
        /\ \A w \in 1..workers : wst[w] = "done" /\ wpos[w] = Len(work[w])
        /\ \A i \in 1..Len(dummy_runs) :
              /\ get(run_cache, dummy_runs[i].run_id) \in 1..Len(repo)
              /\ repo[get(run_cache, dummy_runs[i].run_id)].mlflow_run_id
                     = dummy_runs[i].run_id

C10_Witness ==
    /\ pc = "refresh"
    /\ workers >= 2
    /\ Len(dummy_runs) = NumRuns

\* the orchestrator is inside the loop body of some experiment
InPass == pc \in {"loop", "wait", "commit", "refresh"}

\* C11: experiments are processed one at a time: no fetch of a later
\* experiment exists, and none of the experiment the loop is at before the
\* refresh() of the one before it has returned; the commit starts only when every fetch
\* of that experiment has been collected and workers run only during it;
\* refresh() is called only after every worker has finished, once per
\* experiment (the step that leaves the commit is followed by exactly one
\* refresh step, which writes the file and moves to the next experiment),
\* and the fetches of the next experiment are submitted only after it.
C11_OrchestratorSequencing ==
    [][/\ InPass' =>
            /\ ex' \in 1..Len(experiments')
            /\ \A e \in 1..Len(experiments') :
                  \A r \in search_runs(experiments'[e]) :
                      task'[r].st # "none" =>
                          /\ e <= ex'
                          /\ e = ex' => pc' \in {"wait", "commit", "refresh"}
                          /\ e < ex' => task'[r].st = "collected"
            /\ pc' \in {"commit", "refresh"} =>
                  \A r \in search_runs(experiments'[ex']) :
                      task'[r].st = "collected"
            /\ pc' # "commit" =>
                  \A w \in 1..workers' : wst'[w] \in {"idle", "done"}
            /\ pc' = "refresh" =>
                  \A w \in 1..workers' : wst'[w] = "done"
       /\ (pc = "refresh" /\ InPass') =>
            /\ pc' = "loop"
            /\ ex' = ex + 1
            /\ cache_file' = FileOf(json_dump(run_cache.cache))
       /\ (InPass /\ InPass' /\ ex' # ex) => pc = "refresh"
       /\ (pc' = "refresh" /\ pc # "refresh") => pc = "commit"
       /\ (pc' = "done" /\ pc # "done") =>
            (pc = "refresh" /\ ex = Len(experiments))
       /\ (pc' = "wait" /\ pc # "wait") => pc = "loop"
       /\ (pc' = "commit" /\ pc # "commit") => pc = "wait"]_vars

C11_Witness ==
    /\ pc = "refresh"
    /\ ex = 2
    /\ passes = 1
    /\ cache_file.exists
    /\ Len(repo) = NumRuns

\* C12: when the batch of an experiment has been submitted to the driver it
\* holds exactly one transfer record per run of the experiment, whatever the
\* order the fetches finished in; every record is in the partition of
\* exactly one worker, at one place; no run is committed more than once, and
\* when the driver's commit has returned every run of the experiment has
\* been committed exactly once.
C12_FanInExactlyOnce ==
    pc \in {"commit", "refresh"} =>
        /\ Len(dummy_runs) = Cardinality(runs)
        /\ \A r \in runs :
              Cardinality({i \in 1..Len(dummy_runs) : dummy_runs[i].run_id = r}) = 1
        /\ \A i \in 1..Len(dummy_runs) :
              Cardinality({wj \in (1..workers) \X (1..Len(dummy_runs)) :
                              /\ wj[2] <= Len(work[wj[1]])
                              /\ work[wj[1]][wj[2]] = dummy_runs[i]}) = 1
        /\ \A r \in RunIds :
              /\ committed[r] <= 1
              /\ r \notin runs => committed[r] = 0
        /\ pc = "refresh" => \A r \in runs : committed[r] = 1

C12_Witness ==
    /\ pc = "refresh"
    /\ Len(dummy_runs) = 2
    /\ dummy_runs[1].run_id > dummy_runs[2].run_id
    /\ \A r \in runs : committed[r] = 1

\* C13: a worker takes the records of its partition in order. The step that
\* commits a record creates a record in the repository if and only if the
\* transfer record carries no run_hash, and otherwise reopens the record of
\* that hash and leaves the number of records as it is; the step after it
\* maps the run id to the hash of that record in the cache; and when the
\* worker starts a record, every earlier record of its partition is mapped
\* in the cache to a record of its run.
C13_CreateOrAttach ==
    [][(pc = "commit" /\ pc' = "commit") => \A w \in 1..workers :
          /\ (wst[w] \in {"queued", "open"} /\ wst'[w] = "commited") =>
                /\ IF work[w][wpos[w] + 1].run_hash = NoHash
                   THEN /\ Len(repo') = Len(repo) + 1
                        /\ SubSeq(repo', 1, Len(repo)) = repo
                        /\ aimrun'[w] = Len(repo')
                        /\ \A h \in 1..Len(repo) : aimrun'[w] # h
                   ELSE /\ Len(repo') = Len(repo)
                        /\ aimrun'[w] = work[w][wpos[w] + 1].run_hash
                        /\ \A h \in 1..Len(repo) :
                              h # aimrun'[w] => repo'[h] = repo[h]
                /\ repo'[aimrun'[w]].mlflow_run_id = work[w][wpos[w] + 1].run_id
                /\ \A j \in 1..wpos[w] :
                      /\ get(run_cache, work[w][j].run_id) \in 1..Len(repo)
                      /\ repo[get(run_cache, work[w][j].run_id)].mlflow_run_id
                             = work[w][j].run_id
          /\ (wst[w] = "commited" /\ wst'[w] # "commited") =>
                /\ wpos'[w] = wpos[w] + 1
                /\ run_cache'.cache[work[w][wpos[w] + 1].run_id] = aimrun[w]
          /\ wpos'[w] \in {wpos[w], wpos[w] + 1}]_vars

C13_Witness ==
    \E w \in 1..workers :
        /\ pc = "commit"
        /\ Len(work[w]) >= 2
        /\ wpos[w] = 1
        /\ wst[w] = "commited"
        /\ work[w][1].run_hash # NoHash
        /\ work[w][2].run_hash = NoHash
        /\ get(run_cache, work[w][1].run_id) = work[w][1].run_hash
        /\ aimrun[w] = Len(repo)

\* C14: the step in which the commit of a record fails changes no cache
\* entry and no record made before it. While a worker has failed, it takes
\* no further step: the records of its partition before the failed one are
\* committed once and mapped in the cache to their records, the failed one
\* and those after it are not committed and not in the cache; the driver's
\* commit cannot return, it can only raise; records made by any worker
\* stay in the repository, also when the pass is aborted; and after the
\* abort the orchestrator takes no step (no later experiment is processed).
C14_CommitFailure ==
    [][/\ pc # "commit_error"
       /\ pc = "commit" => \A w \in 1..workers :
            /\ (wst[w] # "failed" /\ pc' = "commit" /\ wst'[w] = "failed") =>
                  /\ run_cache' = run_cache
                  /\ committed' = committed
                  /\ SubSeq(repo', 1, Len(repo)) = repo
            /\ wst[w] = "failed" =>
                  /\ pc' \in {"commit", "commit_error", "crashed"}
                  /\ pc' = "commit" =>
                        (wst'[w] = "failed" /\ wpos'[w] = wpos[w])
                  /\ \A j \in 1..Len(work[w]) :
                        IF j <= wpos[w]
                        THEN /\ committed[work[w][j].run_id] = 1
                             /\ get(run_cache, work[w][j].run_id) \in 1..Len(repo)
                             /\ repo[get(run_cache, work[w][j].run_id)].mlflow_run_id
                                    = work[w][j].run_id
                        ELSE /\ committed[work[w][j].run_id] = 0
                             /\ get(run_cache, work[w][j].run_id) = NoHash
                  /\ SubSeq(repo', 1, Len(repo)) = repo
                  /\ pc' = "commit_error" =>
                        (repo' = repo /\ cache_file' = cache_file)]_vars

C14_Witness ==
    /\ pc = "commit"
    /\ ex = 1
    /\ workers = 1
    /\ Len(work[1]) = 2
    /\ wst[1] = "failed"
    /\ wpos[1] = 1
    /\ committed[work[1][1].run_id] = 1
    /\ Len(repo) = 2

\* C15: from the moment a fetch of the experiment has failed, the pass can
\* only go on collecting, end with the task's exception, or be killed: the
\* batch is never handed to the driver, no record of the repository is
\* created or changed, the cache file is not written, the loop does not
\* move to another experiment, and the runs of the experiments before it
\* keep their records and their entries in the cache file; once the
\* exception has left the pass, only a new pass can follow.
C15_FetchFailure ==
    [][/\ (pc = "wait" /\ \E r \in RunIds : task[r].st = "error") =>
            /\ pc' \in {"wait", "fetch_error", "crashed"}
            /\ repo' = repo
            /\ cache_file' = cache_file
            /\ pc' = "wait" =>
                  /\ ex' = ex
                  /\ work' = work
                  /\ wst' = wst
                  /\ run_cache' = run_cache
            /\ \A e \in 1..(ex - 1) :
                  \A r \in search_runs(experiments[e]) :
                      /\ LoadCache(cache_file')[r] \in 1..Len(repo')
                      /\ repo'[LoadCache(cache_file')[r]].mlflow_run_id = r
       /\ pc = "fetch_error" => (pc' = "loop" /\ passes' = passes + 1)
       /\ pc' = "fetch_error" =>
            (pc = "wait" /\ \E r \in RunIds : task[r].st = "error")]_vars

C15_Witness ==
    /\ pc = "fetch_error"
    /\ passes = 1
    /\ Len(repo) = 2
    /\ \A r \in search_runs(1) :
          /\ LoadCache(cache_file)[r] \in 1..Len(repo)
          /\ repo[LoadCache(cache_file)[r]].mlflow_run_id = r
    /\ \A r \in search_runs(2) : LoadCache(cache_file)[r] = NoHash

\* C16: once the command has resolved its --experiment option: with no
\* option the pass goes over all the experiments of the source; with an
\* option that is the id of an experiment it goes over that experiment
\* (also when another experiment has the option as its name); with an
\* option that is no id and is the name of an experiment it goes over the
\* experiment of that name; otherwise the command has failed with the
\* not-found error, and then no fetch task exists, the repository has no
\* record and no cache file was written.
C16_SelectorResolution ==
    pc \notin {"idle", "usage_error"} =>
        /\ IF experiment = None
           THEN /\ pc # "not_found"
                /\ experiments = [e \in 1..NumExperiments |-> e]
           ELSE IF \E e \in 1..NumExperiments : ExperimentIds[e] = experiment
           THEN /\ pc # "not_found"
                /\ Len(experiments) = 1
                /\ ExperimentIds[experiments[1]] = experiment
           ELSE IF \E e \in 1..NumExperiments : ExperimentNames[e] = experiment
           THEN /\ pc # "not_found"
                /\ Len(experiments) = 1
                /\ ExperimentNames[experiments[1]] = experiment
           ELSE pc = "not_found"
        /\ pc = "not_found" =>
              /\ \A r \in RunIds : task[r].st = "none"
              /\ committed = NoCommits
              /\ repo = <<>>
              /\ cache_file = NoFile

C16_Witness ==
    /\ pc = "done"
    /\ experiment = "A"
    /\ experiments = <<1>>
    /\ Len(repo) = Cardinality(search_runs(1))
    /\ \A h \in 1..Len(repo) : repo[h].mlflow_run_id \in search_runs(1)

\* C17: without continuous mode no watcher is ever made or started, and the
\* step after the last experiment returns from the command. With it, the
\* watcher is made only when the pass is done (every experiment has been
\* processed) and started once, after that; start() is never called twice
\* and stop() never more often than start(); the blocked thread leaves the
\* wait only on an interrupt (or a kill of the process), and the interrupt
\* calls stop() exactly once and returns from the command; the command
\* returns in no other way.
C17_ContinuousMode ==
    [][/\ ~continuous_mode' => watcher' = NoWatcher
       /\ watcher'.starts <= 1
       /\ watcher'.stops <= watcher'.starts
       /\ watcher'.starts >= 1 => watcher'.made
       /\ (pc = "done" /\ ~continuous_mode) => pc' \in {"returned", "interrupted"}
       /\ (watcher'.made /\ ~watcher.made) =>
            /\ pc = "done"
            /\ ex = Len(experiments) + 1
            /\ continuous_mode
       /\ watcher'.starts # watcher.starts =>
            /\ pc = "watcher"
            /\ watcher.made
            /\ watcher'.starts = 1
       /\ pc' = "blocked" => (pc = "started" /\ watcher.starts = 1)
       /\ pc = "blocked" =>
            /\ pc' \in {"returned", "crashed"}
            /\ pc' = "returned" => (watcher.stops = 0 /\ watcher'.stops = 1)
       /\ watcher'.stops # watcher.stops => pc = "blocked"
       /\ pc' = "returned" =>
            \/ pc = "done" /\ ~continuous_mode
            \/ pc = "blocked"
       /\ pc # "returned"]_vars

C17_Witness ==
    /\ pc = "returned"
    /\ continuous_mode
    /\ watcher = [made |-> TRUE, starts |-> 1, stops |-> 1]
    /\ Len(repo) = NumRuns

\* C18: a worker whose commit call has ended, by returning (also for an
\* empty partition) or by raising, or that has not been called, holds no
\* open repository handle.
C18_HandleReleased ==
    \A w \in 1..workers :
        wst[w] \in {"idle", "done", "failed"} => ~repo_inst[w]

\* A commit call that has returned has closed its handle (line 130).
HandleReleasedOnReturn ==
    \A w \in 1..workers : wst[w] \in {"idle", "done"} => ~repo_inst[w]

\* C19: every entry of the cache, in the actor and in the file, names a
\* record of the repository that was made for the entry's run id; and a
\* transfer record that a worker has still to commit carries exactly the
\* hash the cache holds for its run id at that moment (none when the cache
\* holds none).
C19_NoDanglingNoStale ==
    /\ \A r \in RunIds :
          /\ get(run_cache, r) # NoHash =>
                /\ get(run_cache, r) \in 1..Len(repo)
                /\ repo[get(run_cache, r)].mlflow_run_id = r
          /\ LoadCache(cache_file)[r] # NoHash =>
                /\ LoadCache(cache_file)[r] \in 1..Len(repo)
                /\ repo[LoadCache(cache_file)[r]].mlflow_run_id = r
    /\ pc = "commit" =>
          \A w \in 1..workers :
              wst[w] \in {"queued", "open"} =>
                  \A j \in (wpos[w] + 1)..Len(work[w]) :
                      work[w][j].run_hash = get(run_cache, work[w][j].run_id)

C19_Witness ==
    /\ pc = "commit"
    /\ passes = 2
    /\ ex = 2
    /\ \A r \in search_runs(1) : LoadCache(cache_file)[r] \in 1..start_len
    /\ \E w \in 1..workers :
          /\ wst[w] = "done"
          /\ Len(work[w]) = 1
          /\ work[w][1].run_hash = NoHash
          /\ get(run_cache, work[w][1].run_id) = Len(repo)

RECURSIVE Copies(_, _)
Copies(samples, k) ==
    IF k = 0 THEN <<>> ELSE samples \o Copies(samples, k - 1)

\* C20: the step that commits a transfer record appends the samples of the
\* run's metric, in source order and each at its step, to the series of the
\* record it created (whose series was empty) or reopened (whose earlier
\* samples stay); and when k passes have returned normally over the same
\* source, every run has one record whose series is k copies of the source
\* samples.
C20_SamplesAppended ==
    [][/\ \A w \in 1..workers :
            (pc = "commit" /\ wst[w] \in {"queued", "open"}
                /\ wst'[w] = "commited") =>
                repo'[aimrun'[w]].series =
                    (IF work[w][wpos[w] + 1].run_hash # NoHash
                     THEN repo[work[w][wpos[w] + 1].run_hash].series
                     ELSE <<>>)
                    \o get_metric_history(work[w][wpos[w] + 1].run_id)
       /\ pc' = "done" =>
            \A r \in RunIds :
                /\ Cardinality({h \in 1..Len(repo') :
                                   repo'[h].mlflow_run_id = r}) = 1
                /\ \A h \in 1..Len(repo') :
                      repo'[h].mlflow_run_id = r =>
                          repo'[h].series = Copies(get_metric_history(r), passes')]_vars

C20_Witness ==
    /\ pc = "done"
    /\ passes = 2
    /\ Len(repo) = NumRuns
    /\ \E h \in 1..Len(repo) :
          /\ repo[h].mlflow_run_id = 1
          /\ repo[h].series = <<0, 1, 0, 1>>

====
